---- MODULE Spec2Model ----
(***************************************************************************)
(* Pod synthesis of the workflow controller (workflow/controller/          *)
(* workflowpod.go): createWorkflowPod as a state machine over the cluster, *)
(* the pod informer index, the rate limiter and the clock.                 *)
(*                                                                         *)
(* Time is counted in ticks of 1/TicksPerSecond second, so that the        *)
(* truncation of int64(d.Seconds()) is visible.  Optional values (Go       *)
(* pointers) are sequences: <<>> is nil, <<v>> points to v.                *)
(***************************************************************************)
EXTENDS Integers, Sequences, FiniteSets, TLC

\* ------------------------------------------------------------------ bounds
MaxNow == 3
MaxDeadline == 4
MaxTmplSeconds == 2
Burst == 1

\* ticks per second of the model's clock
TicksPerSecond == 2

Workers == {1, 2}
Nodes == {"A", "B"}

None == <<>>
Some(v) == <<v>>
IsSet(o) == Len(o) > 0
Val(o) == o[1]

\* int64(x / d): Go's conversion of a float to int64 truncates toward zero
Trunc(x, d) == IF x >= 0 THEN x \div d ELSE -((-x) \div d)

\* time.Duration.Seconds() followed by int64(...)
WholeSeconds(ticks) == Trunc(ticks, TicksPerSecond)

\* ------------------------------------------------------------------ values
\* *apiv1.Pod values: a nil pointer, the zero Pod, or a pod of the cluster
NilPod == [kind |-> "nil", name |-> <<"", 0>>, node |-> "", ads |-> None, by |-> ""]
EmptyPod == [kind |-> "empty", name |-> <<"", 0>>, node |-> "", ads |-> None, by |-> ""]

\* error values returned by createWorkflowPod: code is the code of an error
\* built by the errors package, "" for an error without code
NoErr == [kind |-> "none", internal |-> FALSE, code |-> ""]
Err(k) == [kind |-> k, internal |-> FALSE, code |-> ""]

\* errors.CodeBadRequest and errors.Errorf(errors.CodeBadRequest, ...)
CodeBadRequest == "ERR_BAD_REQUEST"
Errorf(code, k) == [kind |-> k, internal |-> FALSE, code |-> code]

\* errors.Wrap(err, "", message): the new error has the code passed, here none
Wrap(e, code, k) == [kind |-> k, internal |-> FALSE, code |-> code]

\* errors.InternalWrapError
InternalWrapError(e) == [e EXCEPT !.internal = TRUE]

\* ErrResourceRateLimitReached
ErrResourceRateLimitReached == Err("ResourceRateLimitReached")

\* template activeDeadlineSeconds (*intstr.IntOrString): nil, an integer or
\* a string that is not a number
BadIntStr == [bad |-> TRUE, v |-> 0]
IntStr(v) == [bad |-> FALSE, v |-> v]

VARIABLES
    cluster,            \* pods held by the API server
    index,              \* pods held by the pod informer's store
    tokens,             \* tokens of the controller's rate limiter
    now,                \* the clock, in ticks
    workflowDeadline,   \* woc.workflowDeadline, in ticks, or None
    shutdown,           \* the workflow's shutdown strategy
    nodePhase,          \* phase of each node in woc.wf.Status.Nodes
    activePods,         \* woc.activePods
    inv                 \* the createWorkflowPod invocation of each worker

vars == <<cluster, index, tokens, now, workflowDeadline, shutdown, nodePhase, activePods, inv>>

\* errors of the create call, as the API client reports them
NoApiErr == [kind |-> "none", transient |-> FALSE]
AlreadyExists == [kind |-> "AlreadyExists", transient |-> FALSE]
ApiFailures ==
    { [kind |-> "ServiceUnavailable", transient |-> TRUE],
      [kind |-> "Forbidden", transient |-> FALSE],
      [kind |-> "ContextCanceled", transient |-> TRUE],
      [kind |-> "ContextCanceled", transient |-> FALSE] }

\* ------------------------------------------------------------------ helpers
\* util.PodName(woc.wf.Name, nodeName, tmpl.Name, nodeID, version): every
\* argument is fixed by the workflow and the node, none by the attempt
PodNameOfFresh(nodeName, attempt) == <<nodeName, attempt>>
PodNameOf(nodeName, attempt) == <<nodeName, 0>>

\* podInformer.GetIndexer().ByIndex(NodeIDIndex, namespace/nodeID)
ByIndex(nodeID) == {p \in index : p.node = nodeID}

\* podExists: (existing, exists, err) for the objects the index returned
podExistsFirstOfMany(objs, lookupErr) ==
    IF lookupErr THEN [existing |-> NilPod, exists |-> FALSE, err |-> Err("InformerStore")]
    ELSE IF Cardinality(objs) = 0 THEN [existing |-> NilPod, exists |-> FALSE, err |-> NoErr]
    ELSE [existing |-> CHOOSE p \in objs : TRUE, exists |-> TRUE, err |-> NoErr]
podExistsNotFound(objs, lookupErr) ==
    IF lookupErr THEN [existing |-> NilPod, exists |-> FALSE, err |-> Err("InformerStore")]
    ELSE IF Cardinality(objs) > 1 THEN [existing |-> NilPod, exists |-> FALSE, err |-> Err("TooManyPods")]
    ELSE [existing |-> NilPod, exists |-> FALSE, err |-> NoErr]
podExists(objs, lookupErr) ==
    IF lookupErr THEN [existing |-> NilPod, exists |-> FALSE, err |-> Err("InformerStore")]
    ELSE IF Cardinality(objs) = 0 THEN [existing |-> NilPod, exists |-> FALSE, err |-> NoErr]
    ELSE IF Cardinality(objs) > 1 THEN [existing |-> NilPod, exists |-> FALSE, err |-> Err("TooManyPods")]
    ELSE LET o == CHOOSE p \in objs : TRUE
         IN IF o.kind = "pod" THEN [existing |-> o, exists |-> TRUE, err |-> NoErr]
            ELSE [existing |-> NilPod, exists |-> FALSE, err |-> NoErr]

\* ShutdownStrategy.ShouldExecute(isOnExitPod)
ShouldExecute(strategy, isOnExitPod) ==
    CASE strategy = "Terminate" -> FALSE
      [] strategy = "Stop" -> isOnExitPod
      [] OTHER -> TRUE

\* whether createWorkflowPod skips the node because the workflow shuts down
skipOnShutdownNever(strategy, onExitPod) == FALSE
skipOnShutdown(strategy, onExitPod) == ~ShouldExecute(strategy, onExitPod)

\* intstr.Int64(tmpl.ActiveDeadlineSeconds): nil stays nil, a number is
\* returned, a string that is no number is an error
Int64(is) ==
    IF ~IsSet(is) THEN [v |-> None, err |-> FALSE]
    ELSE IF Val(is).bad THEN [v |-> None, err |-> TRUE]
    ELSE [v |-> Some(Val(is).v), err |-> FALSE]

\* the deadline resolver: activeDeadlineSeconds of the pod, or abort
resolveDeadlineNegativeOnly(wfDeadline, t, tmplSecs, onExitPod) ==
    IF ~IsSet(wfDeadline) \/ onExitPod
    THEN [abort |-> FALSE, ads |-> tmplSecs]
    ELSE LET wfActiveDeadlineSeconds == WholeSeconds(Val(wfDeadline) - t)
         IN IF wfActiveDeadlineSeconds < 0
            THEN [abort |-> TRUE, ads |-> None]
            ELSE IF ~IsSet(tmplSecs) \/ wfActiveDeadlineSeconds < Val(tmplSecs)
            THEN [abort |-> FALSE, ads |-> Some(wfActiveDeadlineSeconds)]
            ELSE [abort |-> FALSE, ads |-> tmplSecs]
resolveDeadlineLatest(wfDeadline, t, tmplSecs, onExitPod) ==
    IF ~IsSet(wfDeadline) \/ onExitPod
    THEN [abort |-> FALSE, ads |-> tmplSecs]
    ELSE LET wfActiveDeadlineSeconds == WholeSeconds(Val(wfDeadline) - t)
         IN IF wfActiveDeadlineSeconds <= 0
            THEN [abort |-> TRUE, ads |-> None]
            ELSE IF ~IsSet(tmplSecs) \/ wfActiveDeadlineSeconds > Val(tmplSecs)
            THEN [abort |-> FALSE, ads |-> Some(wfActiveDeadlineSeconds)]
            ELSE [abort |-> FALSE, ads |-> tmplSecs]
resolveDeadlineExitToo(wfDeadline, t, tmplSecs, onExitPod) ==
    IF ~IsSet(wfDeadline)
    THEN [abort |-> FALSE, ads |-> tmplSecs]
    ELSE LET wfActiveDeadlineSeconds == WholeSeconds(Val(wfDeadline) - t)
         IN IF wfActiveDeadlineSeconds <= 0
            THEN [abort |-> TRUE, ads |-> None]
            ELSE IF ~IsSet(tmplSecs) \/ wfActiveDeadlineSeconds < Val(tmplSecs)
            THEN [abort |-> FALSE, ads |-> Some(wfActiveDeadlineSeconds)]
            ELSE [abort |-> FALSE, ads |-> tmplSecs]
resolveDeadline(wfDeadline, t, tmplSecs, onExitPod) ==
    IF ~IsSet(wfDeadline) \/ onExitPod
    THEN [abort |-> FALSE, ads |-> tmplSecs]
    ELSE LET wfActiveDeadlineSeconds == WholeSeconds(Val(wfDeadline) - t)
         IN IF wfActiveDeadlineSeconds <= 0
            THEN [abort |-> TRUE, ads |-> None]
            ELSE IF ~IsSet(tmplSecs) \/ wfActiveDeadlineSeconds < Val(tmplSecs)
            THEN [abort |-> FALSE, ads |-> Some(wfActiveDeadlineSeconds)]
            ELSE [abort |-> FALSE, ads |-> tmplSecs]

\* a template marked for debugging gets no deadline
debugOverride(ads, debugPause) == IF debugPause THEN None ELSE ads

\* the check of the template timeout against the pod's activeDeadlineSeconds
templateTimeout(templateDeadline, ads, t) ==
    IF IsSet(templateDeadline)
       /\ (~IsSet(ads) \/ (t - Val(templateDeadline)) < Val(ads) * TicksPerSecond)
    THEN LET newActiveDeadlineSeconds == WholeSeconds(Val(templateDeadline) - t)
         IN IF newActiveDeadlineSeconds <= 1
            THEN [exceeded |-> TRUE, ads |-> ads]
            ELSE [exceeded |-> FALSE, ads |-> Some(newActiveDeadlineSeconds)]
    ELSE [exceeded |-> FALSE, ads |-> ads]

\* apierr.IsAlreadyExists
IsAlreadyExists(e) == e.kind = "AlreadyExists"

\* errorsutil.IsTransientErr
IsTransientErr(e) == e.transient

\* what createWorkflowPod makes of the create call's (created, err)
handleCreateCountsFailure(created, e) ==
    IF e.kind # "none" /\ IsAlreadyExists(e)
    THEN [ret |-> created, err |-> NoErr, active |-> 0, end |-> "AlreadyExists"]
    ELSE IF e.kind # "none" /\ ~IsTransientErr(e)
    THEN [ret |-> NilPod, err |-> InternalWrapError(Err(e.kind)), active |-> 0,
          end |-> "CreateFailed"]
    ELSE [ret |-> IF e.kind # "none" THEN NilPod ELSE created,
          err |-> IF e.kind # "none" THEN Err(e.kind) ELSE NoErr,
          active |-> 1, end |-> IF e.kind # "none" THEN "CreateFailed" ELSE "Created"]
handleCreate(created, e) ==
    IF e.kind # "none"
    THEN IF IsAlreadyExists(e)
         THEN [ret |-> created, err |-> NoErr, active |-> 0, end |-> "AlreadyExists"]
         ELSE IF IsTransientErr(e)
         THEN [ret |-> NilPod, err |-> Err(e.kind), active |-> 0, end |-> "CreateFailed"]
         ELSE [ret |-> NilPod, err |-> InternalWrapError(Err(e.kind)), active |-> 0,
               end |-> "CreateFailed"]
    ELSE [ret |-> created, err |-> NoErr, active |-> 1, end |-> "Created"]

\* the object a failed create call hands back with its error: the typed
\* client returns the zero Pod, the fake client nil
FailedCreateResults == {NilPod, EmptyPod}

Finish(r, ret, err, end) == [r EXCEPT !.pc = "done", !.ret = ret, !.err = err, !.end = end]

\* ------------------------------------------------------------------ assembly
\* the call's template, main containers and the configuration it reads:
\*   type            tmpl.GetType()
\*   mainCtrs        names of the main containers passed in
\*   mainCmd         their image, command and args
\*   images          woc.controller.Config.Images, image name to command and
\*                   args
\*   volumes         names of tmpl.Volumes
\*   volumeMounts    tmpl.GetVolumeMounts(), mounts [name, path]
\*   initContainers  tmpl.InitContainers, each [name, mounts, mirror, image,
\*                   command, args]
\*   sidecars        tmpl.Sidecars, each the same
\*   inArts, outArts tmpl.Inputs.Artifacts and tmpl.Outputs.Artifacts, each
\*                   [name, path, optional, located, secrets]
\*   archive         secret selectors of tmpl.ArchiveLocation
\*   patch           the pod spec patch: "none", "valid", "malformed" or
\*                   "unmergeable"
\*   executorSA      an executor service account name is configured
\*   executor        woc.getContainerRuntimeExecutor()
\*   kubeConfig      woc.controller.Config.KubeConfig != nil
\*   wfVolumes       names of woc.volumes
\*   pvcs            names of woc.wf.Status.PersistentVolumeClaims
\*   dataArts        the artifact of tmpl.Data.Source, if it needs one
\*   noAutomount     automountServiceAccountToken is set and false
\* a path is the sequence of its elements, <<>> the path that is not given;
\* a command is the sequence of its words, args None the nil slice
MainContainerName == "main"
WaitContainerName == "wait"
InitContainerName == "init"

Volume(n, s) == [name |-> n, src |-> s, items |-> <<>>]
Mount(n, p) == [name |-> n, path |-> p]
SubPathMount(n, p, sp) == [name |-> n, path |-> p, subPath |-> sp]
Container(n, r, m) ==
    [name |-> n, role |-> r, mounts |-> m, image |-> "", command |-> <<>>, args |-> None]
Cmd(image, command, args) == [image |-> image, command |-> command, args |-> args]
Image(command, args) == [command |-> command, args |-> args]
withCmd(ctr, cmd) ==
    [ctr EXCEPT !.image = cmd.image, !.command = cmd.command, !.args = cmd.args]
Secret(n, k) == [name |-> n, key |-> k]
Artifact(n, p, ss) == [name |-> n, path |-> p, optional |-> FALSE, located |-> TRUE, secrets |-> ss]

volumeVarArgo == Volume("var-run-argo", "controller")
volumeMountVarArgo == Mount("var-run-argo", <<"var", "run", "argo">>)

HasVolume(vols, n) == \E i \in DOMAIN vols : vols[i].name = n

\* the main containers as named at the head of createWorkflowPod
nameMainCtrs(type, names, mounts, cmd) ==
    [i \in DOMAIN names |->
        withCmd(Container(IF names[i] = "" \/ type # "containerSet" THEN MainContainerName
                          ELSE names[i], "main", mounts),
                cmd)]

\* createVolumes
createVolumes(c) ==
    (IF c.kubeConfig THEN <<Volume("kubeconfig", "controller")>> ELSE <<>>)
    \o <<volumeVarArgo>>
    \o (IF c.executor = "docker" THEN <<Volume("docker-sock", "controller")>> ELSE <<>>)
    \o [i \in DOMAIN c.volumes |-> Volume(c.volumes[i], "tmpl")]

\* getVolByName: template-local volumes, then global volumes, then pvcs
getVolByNamePvcFirst(c, name) ==
    IF \E i \in DOMAIN c.volumes : c.volumes[i] = name THEN Some(Volume(name, "tmpl"))
    ELSE IF \E i \in DOMAIN c.pvcs : c.pvcs[i] = name THEN Some(Volume(name, "pvc"))
    ELSE IF \E i \in DOMAIN c.wfVolumes : c.wfVolumes[i] = name THEN Some(Volume(name, "wf"))
    ELSE None
getVolByName(c, name) ==
    IF \E i \in DOMAIN c.volumes : c.volumes[i] = name THEN Some(Volume(name, "tmpl"))
    ELSE IF \E i \in DOMAIN c.wfVolumes : c.wfVolumes[i] = name THEN Some(Volume(name, "wf"))
    ELSE IF \E i \in DOMAIN c.pvcs : c.pvcs[i] = name THEN Some(Volume(name, "pvc"))
    ELSE None

\* addVolumeRef: the volumes of the pod after resolving volMounts, or the
\* error of the first name that resolves to nothing
RECURSIVE addVolumeRef(_, _, _)
addVolumeRef(vols, c, volMounts) ==
    IF volMounts = <<>> THEN [err |-> NoErr, volumes |-> vols]
    ELSE LET vol == getVolByName(c, Head(volMounts).name)
         IN IF ~IsSet(vol)
            THEN [err |-> Errorf(CodeBadRequest, "VolumeNotFound"), volumes |-> vols]
            ELSE addVolumeRef(
                     IF HasVolume(vols, Val(vol).name) THEN vols ELSE Append(vols, Val(vol)),
                     c, Tail(volMounts))

\* the mounts of the init containers or sidecars, one after the other; the
\* first error ends the resolution
RECURSIVE addVolumeRefEach(_, _, _)
addVolumeRefEach(vols, c, ctrs) ==
    IF ctrs = <<>> THEN [err |-> NoErr, volumes |-> vols]
    ELSE LET r == addVolumeRef(vols, c, Head(ctrs).mounts)
         IN IF r.err # NoErr THEN r ELSE addVolumeRefEach(r.volumes, c, Tail(ctrs))

\* the index of the volume called n in vols, 0 when there is none
IndexOfVolume(vols, n) ==
    IF HasVolume(vols, n) THEN CHOOSE i \in DOMAIN vols : vols[i].name = n ELSE 0

\* createSecretVal: st.vols is volMap (in the order of insertion), st.keys is
\* keyMap, whose keys are secret.Name + "-" + secret.Key; a nil selector is
\* one with an empty name
createSecretVal(st, secret) ==
    IF secret.name = "" \/ secret.key = "" THEN st
    ELSE LET i == IndexOfVolume(st.vols, secret.name)
             k == secret.name \o "-" \o secret.key
         IN IF i # 0
            THEN IF k \in st.keys THEN st
                 ELSE [vols |-> [st.vols EXCEPT ![i].items = Append(@, secret.key)],
                       keys |-> st.keys \cup {k}]
            ELSE [vols |-> Append(st.vols, [name |-> secret.name, src |-> "secret",
                                            items |-> <<secret.key>>]),
                  keys |-> st.keys \cup {k}]

RECURSIVE createSecretVals(_, _)
createSecretVals(st, secrets) ==
    IF secrets = <<>> THEN st
    ELSE createSecretVals(createSecretVal(st, Head(secrets)), Tail(secrets))

\* createSecretVolume, for each artifact of arts in turn
RECURSIVE createSecretVolumeEach(_, _)
createSecretVolumeEach(st, arts) ==
    IF arts = <<>> THEN st
    ELSE createSecretVolumeEach(createSecretVals(st, Head(arts).secrets), Tail(arts))

\* the selectors createSecretVolumes visits, in its order
RECURSIVE SecretsOf(_)
SecretsOf(arts) == IF arts = <<>> THEN <<>> ELSE Head(arts).secrets \o SecretsOf(Tail(arts))

\* createSecretVolumes: the volumes of volMap, before the map is ranged over
createSecretVolumes(c) ==
    createSecretVolumeEach(
        createSecretVolumeEach(
            createSecretVolumeEach(
                createSecretVals([vols |-> <<>>, keys |-> {}], c.archive),
                c.outArts),
            c.inArts),
        IF c.type = "data" THEN c.dataArts ELSE <<>>).vols

\* range over a map: the entries in any order
Ranged(seq, perm) == [i \in DOMAIN seq |-> seq[perm[i]]]

\* the mounts createSecretVolumes returns with its volumes
secretVolMounts(vols) == [i \in DOMAIN vols |-> Mount(vols[i].name, <<"argo", "secret", vols[i].name>>)]

\* append mounts to the first container of ctrs called n, if there is one
appendMounts(ctrs, n, mounts) ==
    IF \E i \in DOMAIN ctrs : ctrs[i].name = n
    THEN LET i == CHOOSE i \in DOMAIN ctrs :
                      ctrs[i].name = n /\ \A j \in 1..(i - 1) : ctrs[j].name # n
         IN [ctrs EXCEPT ![i].mounts = @ \o mounts]
    ELSE ctrs

\* append mounts to every container of ctrs called n
appendMountsAll(ctrs, n, mounts) ==
    [i \in DOMAIN ctrs |->
        IF ctrs[i].name = n THEN [ctrs[i] EXCEPT !.mounts = @ \o mounts] ELSE ctrs[i]]

\* the template types addVolumeReferences resolves
ContainerBearing == {"container", "containerSet", "script", "data"}

\* addVolumeReferences, after the mounts of a container: the next containers
addVolumeRefNext(r, c, ctrs) ==
    IF r.err # NoErr THEN r ELSE addVolumeRefEach(r.volumes, c, ctrs)

\* addVolumeReferences, after the last container: the volumes of the secrets
\* and their mounts in the wait, the init and, for data templates, the main
\* container
addSecretVolumes(spec, r, type, volumes) ==
    IF r.err # NoErr THEN [err |-> r.err, spec |-> spec]
    ELSE [err |-> NoErr,
          spec |-> [spec EXCEPT
             !.volumes = r.volumes \o volumes,
             !.containers =
                 IF type = "data"
                 THEN appendMounts(appendMounts(@, WaitContainerName, secretVolMounts(volumes)),
                                   MainContainerName, secretVolMounts(volumes))
                 ELSE appendMounts(@, WaitContainerName, secretVolMounts(volumes)),
             !.initContainers = appendMounts(@, InitContainerName, secretVolMounts(volumes))]]

\* addVolumeReferences: spec is pod.Spec, perm the order in which the map of
\* secret volumes is ranged over
addVolumeReferences(spec, c, perm) ==
    IF c.type \notin ContainerBearing THEN [err |-> NoErr, spec |-> spec]
    ELSE addSecretVolumes(
             spec,
             addVolumeRefNext(
                 addVolumeRefNext(addVolumeRef(spec.volumes, c, c.volumeMounts),
                                  c, c.initContainers),
                 c, c.sidecars),
             c.type,
             Ranged(createSecretVolumes(c), perm))

\* filepath.Join(common.ExecutorMainFilesystemDir, mnt.MountPath)
mainctrfs(mounts) == [i \in DOMAIN mounts |-> Mount(mounts[i].name, <<"mainctrfs">> \o mounts[i].path)]

\* whether p starts with the elements of q
IsPrefix(q, p) == Len(q) <= Len(p) /\ SubSeq(p, 1, Len(q)) = q

\* common.FindOverlappingVolume(tmpl, art.Path) != nil
FindOverlappingVolume(c, path) ==
    \E i \in DOMAIN c.volumeMounts : IsPrefix(c.volumeMounts[i].path, path)

\* the mounts of the input artifacts in a main container, were overlaps
\* with the template's mounts not looked for
RECURSIVE artifactMountsOverlapping(_, _)
artifactMountsOverlapping(c, arts) ==
    IF arts = <<>> THEN <<>>
    ELSE IF ~Head(arts).located /\ Head(arts).optional
    THEN artifactMountsOverlapping(c, Tail(arts))
    ELSE <<SubPathMount("input-artifacts", Head(arts).path, Head(arts).name)>>
         \o artifactMountsOverlapping(c, Tail(arts))

\* the mounts of the input artifacts in a main container
RECURSIVE artifactMounts(_, _)
artifactMounts(c, arts) ==
    IF arts = <<>> THEN <<>>
    ELSE IF (~Head(arts).located /\ Head(arts).optional)
            \/ FindOverlappingVolume(c, Head(arts).path)
    THEN artifactMounts(c, Tail(arts))
    ELSE <<SubPathMount("input-artifacts", Head(arts).path, Head(arts).name)>>
         \o artifactMounts(c, Tail(arts))

\* addInputArtifactsVolumes
addInputArtifactsVolumes(spec, c) ==
    IF Len(c.inArts) = 0 THEN [err |-> NoErr, spec |-> spec]
    ELSE LET artVol == Volume("input-artifacts", "artifacts")
             volMount == Mount(artVol.name, <<"argo", "inputs", "artifacts">>)
             hasMain == \E i \in DOMAIN spec.containers :
                            spec.containers[i].name = MainContainerName
         IN IF hasMain /\ \E i \in DOMAIN c.inArts : c.inArts[i].path = <<>>
            THEN [err |-> Errorf(CodeBadRequest, "ArtifactPath"), spec |-> spec]
            ELSE [err |-> NoErr,
                  spec |-> [spec EXCEPT
                     !.volumes = Append(@, artVol),
                     !.initContainers = appendMounts(@, InitContainerName,
                                            <<volMount>> \o mainctrfs(c.volumeMounts)),
                     !.containers = appendMountsAll(@, MainContainerName,
                                            artifactMounts(c, c.inArts))]]

\* addScriptStagingVolume
addScriptStagingVolume(spec) ==
    LET volMount == Mount("argo-staging", <<"argo", "staging">>)
    IN [spec EXCEPT
          !.volumes = Append(@, Volume("argo-staging", "staging")),
          !.initContainers = appendMounts(@, InitContainerName, <<volMount>>),
          !.containers = appendMounts(@, MainContainerName, <<volMount>>)]

\* findMainContainer(pod).VolumeMounts, nothing when there is no main container
mainMounts(spec) ==
    IF \E i \in DOMAIN spec.containers : spec.containers[i].name = MainContainerName
    THEN spec.containers[CHOOSE i \in DOMAIN spec.containers :
                             /\ spec.containers[i].name = MainContainerName
                             /\ \A j \in 1..(i - 1) :
                                    spec.containers[j].name # MainContainerName].mounts
    ELSE <<>>

\* the containers of the template with the mounts mirrorVolumeMounts adds
userContainers(spec, ctrs, role) ==
    [i \in DOMAIN ctrs |->
        withCmd(Container(ctrs[i].name, role,
                          ctrs[i].mounts \o (IF ctrs[i].mirror THEN mainMounts(spec) ELSE <<>>)),
                ctrs[i])]

\* addInitContainers
addInitContainers(spec, c) ==
    [spec EXCEPT !.initContainers = @ \o userContainers(spec, c.initContainers, "userInit")]

\* addSidecars
addSidecars(spec, c) ==
    [spec EXCEPT !.containers = @ \o userContainers(spec, c.sidecars, "sidecar")]

\* all mounts of the containers called main
RECURSIVE mountsOfMains(_)
mountsOfMains(ctrs) ==
    IF ctrs = <<>> THEN <<>>
    ELSE (IF Head(ctrs).name = MainContainerName THEN Head(ctrs).mounts ELSE <<>>)
         \o mountsOfMains(Tail(ctrs))

\* addOutputArtifactsVolumes
addOutputArtifactsVolumes(spec, c) ==
    IF c.type \in {"resource", "data"} THEN spec
    ELSE [spec EXCEPT !.containers =
              appendMounts(@, WaitContainerName, mainctrfs(mountsOfMains(spec.containers)))]

\* every container of ctrs gets volumeMountVarArgo
withVarArgo(ctrs) == [i \in DOMAIN ctrs |-> [ctrs[i] EXCEPT !.mounts = Append(@, volumeMountVarArgo)]]

\* newExecContainer: the executor's container with the mounts of the
\* kubeconfig and of the executor's service account token
newExecContainer(name, c) ==
    withCmd(Container(name, name,
                      (IF c.kubeConfig THEN <<Mount("kubeconfig", <<"kube", "config">>)>> ELSE <<>>)
                      \o (IF c.executorSA
                          THEN <<Mount("exec-sa-token", <<"var", "run", "secrets", "token">>)>>
                          ELSE <<>>)),
            Cmd("argoexec", <<"argoexec", name>>, None))

\* newInitContainer
newInitContainer(c) == newExecContainer(InitContainerName, c)

\* newWaitContainer
newWaitContainer(c) ==
    LET ctr == newExecContainer(WaitContainerName, c)
    IN IF c.executor = "docker"
       THEN [ctr EXCEPT !.mounts = Append(@, Mount("docker-sock", <<"var", "run", "docker.sock">>))]
       ELSE ctr

\* the pod spec createWorkflowPod starts from
newPodSpec(c) ==
    [containers |-> <<>>, initContainers |-> <<>>, volumes |-> createVolumes(c),
     shareProcessNamespace |-> c.executor = "pns"]

\* setupServiceAccount: the token volume of the executor's service account
setupServiceAccount(spec, c, lookupFailed) ==
    IF c.executorSA
    THEN IF lookupFailed THEN [err |-> Err("ServiceAccountToken"), spec |-> spec]
         ELSE [err |-> NoErr,
               spec |-> [spec EXCEPT !.volumes = Append(@, Volume("exec-sa-token", "controller"))]]
    ELSE IF c.noAutomount
    THEN [err |-> Errorf(CodeBadRequest, "ExecutorServiceAccount"), spec |-> spec]
    ELSE [err |-> NoErr, spec |-> spec]

\* the wait container, unless the template is a resource or data template,
\* and the main containers
addContainersWaitAlways(spec, c) ==
    [spec EXCEPT !.containers =
        <<newWaitContainer(c)>> \o nameMainCtrs(c.type, c.mainCtrs, c.volumeMounts, c.mainCmd)]
addContainersWaitLast(spec, c) ==
    [spec EXCEPT !.containers =
        nameMainCtrs(c.type, c.mainCtrs, c.volumeMounts, c.mainCmd)
        \o (IF c.type # "resource" /\ c.type # "data" THEN <<newWaitContainer(c)>> ELSE <<>>)]
addContainers(spec, c) ==
    [spec EXCEPT !.containers =
        (IF c.type # "resource" /\ c.type # "data" THEN <<newWaitContainer(c)>> ELSE <<>>)
        \o nameMainCtrs(c.type, c.mainCtrs, c.volumeMounts, c.mainCmd)]

\* the executor's init container, when the template needs one
addExecInitForScriptsOnly(spec, c) ==
    IF c.type = "script" \/ c.executor = "emissary"
    THEN [spec EXCEPT !.initContainers = <<newInitContainer(c)>>]
    ELSE spec
addExecInit(spec, c) ==
    IF Len(c.inArts) > 0 \/ c.type = "script" \/ c.executor = "emissary"
    THEN [spec EXCEPT !.initContainers = <<newInitContainer(c)>>]
    ELSE spec

\* the pod spec patch: a malformed template patch is refused by the merge
\* of the two patches (early) or by the parse that follows it; a valid
\* patch here is one that leaves the containers and the volumes as they are
applyPodSpecPatchUnchecked(spec, patch, early) == [err |-> NoErr, spec |-> spec]
applyPodSpecPatch(spec, patch, early) ==
    CASE patch = "malformed" ->
            [err |-> IF early THEN Wrap(Err("Unmarshal"), "", "PodSpecPatchMerge")
                     ELSE Err("InvalidPodSpecPatch"),
             spec |-> spec]
      [] patch = "conflicting" ->
            [err |-> Wrap(Err("Merge"), "", "PodSpecPatchMerge"), spec |-> spec]
      [] patch = "unmergeable" ->
            [err |-> Wrap(Err("Merge"), "", "StrategicMergePatch"), spec |-> spec]
      [] OTHER -> [err |-> NoErr, spec |-> spec]

\* failures of calls whose code is elsewhere: the token lookup of
\* setupServiceAccount, substitutePodParams and verifyResolvedVariables
ExternalFailures == {"none", "serviceAccount", "substitute", "unresolved"}

\* getImage: the entry of the image in Config.Images, the zero Image if
\* there is none
getImage(images, image) ==
    IF image \in DOMAIN images THEN images[image] ELSE Image(<<>>, None)

\* a container without command takes the image's, and its args if it has none
resolveCommand(ctr, x) ==
    IF Len(ctr.command) = 0
    THEN [ctr EXCEPT !.command = x.command, !.args = IF @ = None THEN x.args ELSE @]
    ELSE ctr

\* the command that runs a container's command under the emissary
EmissaryWrapper == <<"/var/run/argo/argoexec", "emissary", "--">>

\* the containers the emissary loop looks at, were the wait container one
emissaryAppliesToAll(c, ctr) == c.executor = "emissary"

\* the containers the emissary loop looks at
emissaryApplies(c, ctr) == c.executor = "emissary" /\ ctr.name # WaitContainerName

\* the emissary loop, for containers that all have a command
emissaryContainers(ctrs, c) ==
    [i \in DOMAIN ctrs |->
        IF emissaryApplies(c, ctrs[i])
        THEN [resolveCommand(ctrs[i], getImage(c.images, ctrs[i].image))
              EXCEPT !.command = EmissaryWrapper \o @]
        ELSE ctrs[i]]

\* the stages of assembly: r is what the stages before made, pod.Spec or the
\* error that ends the invocation
thenContainers(r, c) ==
    IF r.err # NoErr THEN r
    ELSE [err |-> NoErr, spec |-> addExecInit(addContainers(r.spec, c), c)]

thenVolumeReferences(r, c, perm) ==
    IF r.err # NoErr THEN r ELSE addVolumeReferences(r.spec, c, perm)

thenInputArtifacts(r, c) ==
    IF r.err # NoErr THEN r ELSE addInputArtifactsVolumes(r.spec, c)

thenScriptStaging(r, c) ==
    IF r.err # NoErr \/ c.type # "script" THEN r
    ELSE [err |-> NoErr, spec |-> addScriptStagingVolume(r.spec)]

thenUserContainers(r, c) ==
    IF r.err # NoErr THEN r
    ELSE [err |-> NoErr,
          spec |-> [addOutputArtifactsVolumes(
                        addSidecars(addInitContainers(r.spec, c), c), c)
                    EXCEPT !.initContainers = withVarArgo(@)]]

thenSubstitute(r, ext) ==
    IF r.err # NoErr THEN r
    ELSE IF ext = "substitute" THEN [r EXCEPT !.err = Err("Substitute")]
    ELSE IF ext = "unresolved"
    THEN [r EXCEPT !.err = Errorf(CodeBadRequest, "UnresolvedVariable")]
    ELSE r

thenPodSpecPatch(r, c, early) ==
    IF r.err # NoErr THEN r ELSE applyPodSpecPatch(r.spec, c.patch, early)

thenEmissary(r, c) ==
    IF r.err # NoErr THEN r
    ELSE IF \E i \in DOMAIN r.spec.containers :
               /\ emissaryApplies(c, r.spec.containers[i])
               /\ Len(resolveCommand(r.spec.containers[i],
                                     getImage(c.images, r.spec.containers[i].image)).command) = 0
    THEN [r EXCEPT !.err = Err("EmissaryCommand")]
    ELSE [r EXCEPT !.spec.containers = withVarArgo(emissaryContainers(@, c))]

\* the part of createWorkflowPod between the deadline resolver and the
\* template timeout check: pod.Spec or the error that ends the invocation
assemble(c, perm, early, ext) ==
    thenEmissary(
        thenPodSpecPatch(
            thenSubstitute(
                thenUserContainers(
                    thenScriptStaging(
                        thenInputArtifacts(
                            thenVolumeReferences(
                                thenContainers(
                                    setupServiceAccount(newPodSpec(c), c, ext = "serviceAccount"),
                                    c),
                                c, perm),
                            c),
                        c),
                    c),
                ext),
            c, early),
        c)

\* what the invocation makes of the assembly
afterAssemble(in, r) ==
    IF r.err # NoErr THEN Finish(in, NilPod, r.err, "AssemblyFailed")
    ELSE [in EXCEPT !.pc = "timeout", !.spec = r.spec]

\* a container template with one main container and nothing else, under the
\* docker executor
BaseCall ==
    [type |-> "container", mainCtrs |-> <<"">>, volumes |-> <<>>, volumeMounts |-> <<>>,
     initContainers |-> <<>>, sidecars |-> <<>>, inArts |-> <<>>, outArts |-> <<>>,
     dataArts |-> <<>>, archive |-> <<>>, patch |-> "none", executorSA |-> FALSE,
     noAutomount |-> FALSE, executor |-> "docker", kubeConfig |-> FALSE,
     wfVolumes |-> <<>>, pvcs |-> <<>>,
     mainCmd |-> Cmd("img", <<"run">>, None),
     images |-> [n \in {"other"} |-> Image(<<"entry">>, None)]]

\* the pod spec before anything is assembled
EmptySpec ==
    [containers |-> <<>>, initContainers |-> <<>>, volumes |-> <<>>,
     shareProcessNamespace |-> FALSE]

\* an invocation: its position, its arguments, what it read and what it
\* returned.  call is what it was called with, spec the pod spec it
\* assembled.  prior, seen, strategy, at, tmplLeft, allows, creates and apiErr
\* record what the invocation met, for the properties below
Idle == [pc |-> "idle", node |-> "", onExit |-> FALSE, prior |-> FALSE,
         seen |-> {}, lookupErr |-> FALSE, strategy |-> "",
         at |-> 0, tmpl |-> None, debug |-> FALSE, resolved |-> None,
         pod |-> NilPod, tmplLeft |-> None, allows |-> 0, allowed |-> FALSE,
         creates |-> 0, apiErr |-> NoApiErr, ret |-> NilPod, err |-> NoErr,
         end |-> "", call |-> BaseCall, spec |-> EmptySpec]

\* ------------------------------------------------------------------ Init
Start(WorkflowDeadlines) ==
    /\ cluster = {}
    /\ index = {}
    /\ tokens = Burst
    /\ now = 0
    /\ workflowDeadline \in WorkflowDeadlines
    /\ shutdown = ""
    /\ nodePhase = [n \in Nodes |-> "Pending"]
    /\ activePods = 0
    /\ inv = [w \in Workers |-> Idle]

\* ------------------------------------------------------------------ createWorkflowPod
\* the call: createWorkflowPod(ctx, nodeName, mainCtrs, tmpl, opts)
Begin(w, NodeNames, Calls) ==
    /\ inv[w].pc = "idle"
    /\ \E n \in NodeNames, x \in BOOLEAN, c \in Calls :
         inv' = [inv EXCEPT ![w] = [Idle EXCEPT !.pc = "check", !.node = n, !.onExit = x,
                    !.call = c, !.prior = (\E p \in cluster : p.node = n /\ p.by = "controller")]]
    /\ UNCHANGED <<cluster, index, tokens, now, workflowDeadline, shutdown, nodePhase, activePods>>

\* the existence check, were it made after the shutdown check
CheckExistingAfterShutdown(w) ==
    /\ inv[w].pc = "check"
    /\ \E lookupErr \in BOOLEAN :
         LET objs == ByIndex(inv[w].node)
             r == podExists(objs, lookupErr)
             in == [inv[w] EXCEPT !.seen = objs, !.lookupErr = lookupErr]
         IN inv' = [inv EXCEPT ![w] =
                      IF skipOnShutdown(shutdown, inv[w].onExit)
                      THEN Finish(in, NilPod, NoErr, "Skipped")
                      ELSE IF r.err # NoErr THEN Finish(in, NilPod, r.err, "LookupFailed")
                      ELSE IF r.exists THEN Finish(in, r.existing, NoErr, "Existing")
                      ELSE [in EXCEPT !.pc = "shutdown"]]
    /\ nodePhase' = IF skipOnShutdown(shutdown, inv[w].onExit)
                    THEN [nodePhase EXCEPT ![inv[w].node] = "Skipped"]
                    ELSE nodePhase
    /\ UNCHANGED <<cluster, index, tokens, now, workflowDeadline, shutdown, activePods>>

\* the existence check
CheckExisting(w) ==
    /\ inv[w].pc = "check"
    /\ \E lookupErr \in BOOLEAN :
         LET objs == ByIndex(inv[w].node)
             r == podExists(objs, lookupErr)
             in == [inv[w] EXCEPT !.seen = objs, !.lookupErr = lookupErr]
         IN inv' = [inv EXCEPT ![w] =
                      IF r.err # NoErr THEN Finish(in, NilPod, r.err, "LookupFailed")
                      ELSE IF r.exists THEN Finish(in, r.existing, NoErr, "Existing")
                      ELSE [in EXCEPT !.pc = "shutdown"]]
    /\ UNCHANGED <<cluster, index, tokens, now, workflowDeadline, shutdown, nodePhase, activePods>>

\* the shutdown check, were the rate limiter asked before it
ShutdownCheckAfterAllow(w) ==
    /\ inv[w].pc = "shutdown"
    /\ LET in == [inv[w] EXCEPT !.strategy = shutdown, !.allows = @ + 1, !.allowed = tokens > 0]
       IN IF skipOnShutdown(shutdown, inv[w].onExit)
          THEN /\ nodePhase' = [nodePhase EXCEPT ![inv[w].node] = "Skipped"]
               /\ inv' = [inv EXCEPT ![w] = Finish(in, NilPod, NoErr, "Skipped")]
          ELSE /\ inv' = [inv EXCEPT ![w] = [inv[w] EXCEPT !.strategy = shutdown,
                                                           !.pc = "deadline"]]
               /\ UNCHANGED nodePhase
    /\ tokens' = IF skipOnShutdown(shutdown, inv[w].onExit) /\ tokens > 0
                 THEN tokens - 1 ELSE tokens
    /\ UNCHANGED <<cluster, index, now, workflowDeadline, shutdown, activePods>>

\* the shutdown check
ShutdownCheck(w) ==
    /\ inv[w].pc = "shutdown"
    /\ LET in == [inv[w] EXCEPT !.strategy = shutdown]
       IN IF skipOnShutdown(shutdown, inv[w].onExit)
          THEN /\ nodePhase' = [nodePhase EXCEPT ![inv[w].node] = "Skipped"]
               /\ inv' = [inv EXCEPT ![w] = Finish(in, NilPod, NoErr, "Skipped")]
          ELSE /\ inv' = [inv EXCEPT ![w] = [in EXCEPT !.pc = "deadline"]]
               /\ UNCHANGED nodePhase
    /\ UNCHANGED <<cluster, index, tokens, now, workflowDeadline, shutdown, activePods>>

\* the deadline resolver and the debug markers
ResolveDeadline(w, TmplDeadlines, DebugMarks) ==
    /\ inv[w].pc = "deadline"
    /\ \E is \in TmplDeadlines, dbg \in DebugMarks :
         LET c == Int64(is)
             r == resolveDeadline(workflowDeadline, now, c.v, inv[w].onExit)
             in == [inv[w] EXCEPT !.tmpl = is, !.debug = dbg, !.at = now]
         IN inv' = [inv EXCEPT ![w] =
                      IF c.err THEN Finish(in, NilPod, Err("ParseInt"), "ParseFailed")
                      ELSE IF r.abort THEN Finish(in, NilPod, NoErr, "Aborted")
                      ELSE [in EXCEPT !.pc = "assemble", !.resolved = r.ads,
                                      !.pod = [kind |-> "pod",
                                               name |-> PodNameOf(inv[w].node, w),
                                               node |-> inv[w].node,
                                               ads |-> debugOverride(r.ads, dbg),
                                               by |-> "controller"]]]
    /\ UNCHANGED <<cluster, index, tokens, now, workflowDeadline, shutdown, nodePhase, activePods>>

\* assembly, substitution, patching and the emissary check
Assemble(w) ==
    /\ inv[w].pc = "assemble"
    /\ \E ext \in ExternalFailures, early \in BOOLEAN,
          perm \in Permutations(DOMAIN createSecretVolumes(inv[w].call)) :
         inv' = [inv EXCEPT ![w] =
                   afterAssemble(inv[w], assemble(inv[w].call, perm, early, ext))]
    /\ UNCHANGED <<cluster, index, tokens, now, workflowDeadline, shutdown, nodePhase, activePods>>

\* the template timeout check
TemplateTimeout(w, TemplateDeadlines) ==
    /\ inv[w].pc = "timeout"
    /\ \E td \in TemplateDeadlines, failed \in BOOLEAN :
         LET r == templateTimeout(td, inv[w].pod.ads, now)
             in == [inv[w] EXCEPT !.tmplLeft = IF IsSet(td) THEN Some(Val(td) - now) ELSE None]
         IN inv' = [inv EXCEPT ![w] =
                      IF failed THEN Finish(inv[w], NilPod, Err("TemplateTimeout"), "TimeoutFailed")
                      ELSE IF r.exceeded
                      THEN Finish(in, NilPod, Err("DeadlineExceeded"), "DeadlineExceeded")
                      ELSE [in EXCEPT !.pc = "limit", !.pod.ads = r.ads]]
    /\ UNCHANGED <<cluster, index, tokens, now, workflowDeadline, shutdown, nodePhase, activePods>>

\* the rate limiter's gate
afterAllowIgnored(r, ok) == [r EXCEPT !.pc = "create", !.allows = @ + 1, !.allowed = ok]
afterAllow(r, ok) ==
    IF ~ok
    THEN Finish([r EXCEPT !.allows = @ + 1, !.allowed = FALSE], NilPod,
                ErrResourceRateLimitReached, "RateLimited")
    ELSE [r EXCEPT !.pc = "create", !.allows = @ + 1, !.allowed = TRUE]

RateLimit(w) ==
    /\ inv[w].pc = "limit"
    /\ LET ok == tokens > 0
       IN /\ tokens' = IF ok THEN tokens - 1 ELSE tokens
          /\ inv' = [inv EXCEPT ![w] = afterAllow(inv[w], ok)]
    /\ UNCHANGED <<cluster, index, now, workflowDeadline, shutdown, nodePhase, activePods>>

\* the create call and what is made of its answer
Create(w) ==
    /\ inv[w].pc = "create"
    /\ LET pod == inv[w].pod
           taken == \E p \in cluster : p.name = pod.name
           called == [inv[w] EXCEPT !.creates = @ + 1]
       IN \/ /\ taken
             /\ \E obj \in FailedCreateResults :
                  LET h == handleCreate(obj, AlreadyExists)
                  IN /\ inv' = [inv EXCEPT ![w] =
                                  Finish([called EXCEPT !.apiErr = AlreadyExists],
                                         h.ret, h.err, h.end)]
                     /\ activePods' = activePods + h.active
             /\ UNCHANGED cluster
          \/ /\ ~taken
             /\ LET h == handleCreate(pod, NoApiErr)
                IN /\ inv' = [inv EXCEPT ![w] = Finish(called, h.ret, h.err, h.end)]
                   /\ activePods' = activePods + h.active
             /\ cluster' = cluster \cup {pod}
          \/ \E e \in ApiFailures, obj \in FailedCreateResults, landed \in BOOLEAN :
                LET h == handleCreate(obj, e)
                IN /\ landed => (e.kind # "Forbidden" /\ ~taken)
                   /\ inv' = [inv EXCEPT ![w] =
                                Finish([called EXCEPT !.apiErr = e], h.ret, h.err, h.end)]
                   /\ activePods' = activePods + h.active
                   /\ cluster' = IF landed THEN cluster \cup {pod} ELSE cluster
    /\ UNCHANGED <<index, tokens, now, workflowDeadline, shutdown, nodePhase>>

\* the caller takes the result
Return(w) ==
    /\ inv[w].pc = "done"
    /\ inv' = [inv EXCEPT ![w] = Idle]
    /\ UNCHANGED <<cluster, index, tokens, now, workflowDeadline, shutdown, nodePhase, activePods>>

\* ------------------------------------------------------------------ environment
\* the informer delivers a pod of the cluster to its store
InformerSync ==
    /\ \E p \in cluster \ index : index' = index \cup {p}
    /\ UNCHANGED <<cluster, tokens, now, workflowDeadline, shutdown, nodePhase, activePods, inv>>

\* a pod that createWorkflowPod did not create carries the node's id
ForeignPod(NodeNames) ==
    /\ \E n \in NodeNames :
         LET p == [kind |-> "pod", name |-> <<n, -1>>, node |-> n, ads |-> None, by |-> "other"]
         IN /\ p \notin cluster
            /\ cluster' = cluster \cup {p}
    /\ UNCHANGED <<index, tokens, now, workflowDeadline, shutdown, nodePhase, activePods, inv>>

\* the limiter's bucket refills
Refill ==
    /\ tokens < Burst
    /\ tokens' = tokens + 1
    /\ UNCHANGED <<cluster, index, now, workflowDeadline, shutdown, nodePhase, activePods, inv>>

\* time passes
Tick ==
    /\ now < MaxNow
    /\ now' = now + 1
    /\ UNCHANGED <<cluster, index, tokens, workflowDeadline, shutdown, nodePhase, activePods, inv>>

\* the workflow is stopped or terminated
Shutdown ==
    /\ shutdown = ""
    /\ shutdown' \in {"Stop", "Terminate"}
    /\ UNCHANGED <<cluster, index, tokens, now, workflowDeadline, nodePhase, activePods, inv>>

\* the controller restarts: invocations in flight, the informer's store and
\* what the operation had not persisted are lost; the cluster keeps its pods
Restart ==
    /\ \E w \in Workers : inv[w].pc # "idle"
    /\ inv' = [w \in Workers |-> Idle]
    /\ index' = {}
    /\ activePods' = 0
    /\ nodePhase' = [n \in Nodes |-> "Pending"]
    /\ tokens' = Burst
    /\ UNCHANGED <<cluster, now, workflowDeadline, shutdown>>

\* ------------------------------------------------------------------ specifications
TmplDeadlinesNarrow == {None}
TmplDeadlinesWide ==
    {None, Some(BadIntStr)} \cup {Some(IntStr(v)) : v \in 0..MaxTmplSeconds}
TemplateDeadlinesWide == {None} \cup {Some(d) : d \in 0..MaxDeadline}

Invocation(w, NodeNames, TmplDeadlines, DebugMarks, TemplateDeadlines, Calls) ==
    \/ Begin(w, NodeNames, Calls)
    \/ CheckExisting(w)
    \/ ShutdownCheck(w)
    \/ ResolveDeadline(w, TmplDeadlines, DebugMarks)
    \/ Assemble(w)
    \/ TemplateTimeout(w, TemplateDeadlines)
    \/ RateLimit(w)
    \/ Create(w)
    \/ Return(w)

\* a workflow without deadline: concurrent invocations for one node, a
\* lagging informer, restarts, shutdown and the rate limiter
Init == Start({None})

Next ==
    \/ \E w \in Workers : Invocation(w, {"A"}, TmplDeadlinesNarrow, {FALSE}, {None}, {BaseCall})
    \/ InformerSync
    \/ ForeignPod({"A"})
    \/ Refill
    \/ Shutdown
    \/ Restart

Spec == Init /\ [][Next]_vars

\* the inputs of assembly
MaxArtifacts == 3

TemplateTypes == {"container", "containerSet", "script", "resource", "data"}
Executors == {"docker", "kubelet", "pns", "emissary"}

\* the main containers a template of the type comes with
MainCtrsOf(type) == IF type = "containerSet" THEN {<<"a", "b">>, <<"", "b">>} ELSE {<<"">>}

UserCtr(n, m, mirror) ==
    [name |-> n, mounts |-> m, mirror |-> mirror,
     image |-> "img", command |-> <<"run">>, args |-> None]

\* templates of every type under every executor, with and without an input
\* artifact, a sidecar and an init container of the template
CallsOfContainers ==
    UNION { { [BaseCall EXCEPT !.type = t, !.mainCtrs = m, !.executor = e, !.inArts = a,
                               !.sidecars = sc, !.initContainers = ic] :
                m \in MainCtrsOf(t),
                e \in Executors,
                a \in {<<>>, <<Artifact("x", <<"in">>, <<>>)>>},
                sc \in {<<>>, <<UserCtr("side", <<>>, FALSE)>>},
                ic \in {<<>>, <<UserCtr("setup", <<>>, TRUE)>>} } :
            t \in TemplateTypes }

\* templates that mount volumes: "v" is a name the template, the workflow
\* and its claims may each define, "s" one that is also a secret's name
CallsOfVolumes ==
    { [BaseCall EXCEPT !.type = t, !.volumes = tv, !.wfVolumes = wv, !.pvcs = pv,
                       !.volumeMounts = vm, !.sidecars = sc, !.initContainers = ic,
                       !.inArts = a] :
        t \in {"container", "script", "resource", "data"},
        tv \in {<<>>, <<"v">>, <<"s">>},
        wv \in {<<>>, <<"v">>},
        pv \in {<<>>, <<"v">>},
        vm \in {<<>>, <<Mount("v", <<"mnt">>)>>, <<Mount("s", <<"mnt">>)>>},
        sc \in {<<>>, <<UserCtr("side", <<Mount("v", <<"mnt">>)>>, FALSE)>>},
        ic \in {<<>>, <<UserCtr("setup", <<Mount("v", <<"mnt">>)>>, FALSE)>>},
        a \in {<<>>, <<Artifact("x", <<"in">>, <<Secret("s", "k")>>)>>} }

\* secret selectors: two secrets, one named by a prefix of the other's name,
\* and a selector that names no secret
SecretSelectors == {Secret("a", "x"), Secret("a", "b-c"), Secret("a-b", "c"), Secret("", "x")}

RECURSIVE ArtifactSeqs(_)
ArtifactSeqs(n) ==
    IF n = 0 THEN {<<>>}
    ELSE ArtifactSeqs(n - 1)
         \cup {Append(as, Artifact("x", <<"in">>, <<sel>>)) :
                  as \in {q \in ArtifactSeqs(n - 1) : Len(q) = n - 1}, sel \in SecretSelectors}

\* templates whose artifacts refer to secrets
CallsOfSecrets ==
    { [BaseCall EXCEPT !.inArts = a] : a \in ArtifactSeqs(MaxArtifacts) }

\* input artifacts: with and without a path, under and beside the mount of
\* the template's volume, optional or not, with or without location or key
ArtifactsNamed(n) ==
    { [Artifact(n, p, <<>>) EXCEPT !.optional = o, !.located = l] :
        p \in {<<>>, <<"in">>, <<"data", "sub">>}, o \in BOOLEAN, l \in BOOLEAN }

\* templates with one or two input artifacts whose volume "v" is mounted at
\* /data or not at all; a containerSet with and without a container called
\* main
CallsOfArtifacts ==
    UNION { { [BaseCall EXCEPT !.type = t, !.mainCtrs = m, !.volumes = <<"v">>,
                               !.volumeMounts = vm, !.inArts = a] :
                m \in MainCtrsOf(t),
                vm \in {<<>>, <<Mount("v", <<"data">>)>>},
                a \in {<<x>> : x \in ArtifactsNamed("x")}
                       \cup {<<x, y>> : x \in ArtifactsNamed("x"), y \in ArtifactsNamed("y")} } :
            t \in {"container", "containerSet", "resource"} }

\* a container's image, command and args: a command of its own, none and no
\* args either, none but args of its own
Cmds == {Cmd("img", <<"run">>, None), Cmd("img", <<>>, None), Cmd("img", <<>>, Some(<<"own">>))}

\* the image index: without the image, with its command, with its command
\* and args
ImageIndexes ==
    {[n \in {"other"} |-> Image(<<"entry">>, None)],
     [n \in {"img"} |-> Image(<<"entry">>, None)],
     [n \in {"img"} |-> Image(<<"entry">>, Some(<<"arg">>))]}

\* templates whose main containers, sidecar and init container have a
\* command or none, under the emissary and the docker executor
CallsOfCommands ==
    UNION { { [BaseCall EXCEPT !.type = t, !.mainCtrs = m, !.executor = e, !.mainCmd = mc,
                               !.sidecars = sc, !.initContainers = ic, !.images = ix] :
                m \in MainCtrsOf(t),
                e \in {"emissary", "docker"},
                mc \in Cmds,
                sc \in {<<>>} \cup {<<withCmd(UserCtr("side", <<>>, FALSE), cmd)>> : cmd \in Cmds},
                ic \in {<<>>, <<withCmd(UserCtr("setup", <<>>, FALSE), Cmd("img", <<>>, None))>>},
                ix \in ImageIndexes } :
            t \in {"container", "containerSet"} }

\* templates with a pod spec patch
CallsOfPatches ==
    { [BaseCall EXCEPT !.patch = pk, !.executor = e] :
        pk \in {"none", "valid", "malformed", "conflicting", "unmergeable"},
        e \in Executors }

\* a workflow whose templates differ: one invocation at a time, over the
\* templates and configurations above
NextAssembly ==
    \/ Invocation(1, {"A"}, TmplDeadlinesNarrow, {FALSE}, {None},
                  CallsOfContainers \cup CallsOfVolumes \cup CallsOfSecrets
                  \cup CallsOfPatches \cup CallsOfArtifacts \cup CallsOfCommands)
    \/ Refill

SpecAssembly == Init /\ [][NextAssembly]_vars

\* a workflow with a deadline: one invocation at a time, over every
\* deadline input, while time passes
InitDeadline == Start({None} \cup {Some(d) : d \in 1..MaxDeadline})

NextDeadline ==
    \/ Invocation(1, {"A"}, TmplDeadlinesWide, BOOLEAN, TemplateDeadlinesWide, {BaseCall})
    \/ InformerSync
    \/ Refill
    \/ Tick

SpecDeadline == InitDeadline /\ [][NextDeadline]_vars

\* a workflow with a deadline that is stopped or terminated while time
\* passes and pods of its nodes reach the informer's store: one invocation
\* at a time
NextShutdown ==
    \/ Invocation(1, {"A"}, TmplDeadlinesNarrow, {FALSE}, {None}, {BaseCall})
    \/ InformerSync
    \/ ForeignPod({"A"})
    \/ Refill
    \/ Tick
    \/ Shutdown

SpecShutdown == InitDeadline /\ [][NextShutdown]_vars

\* ------------------------------------------------------------------ properties
Done(w) == inv[w].pc = "done"

\* the pods createWorkflowPod created for a node
PodsOf(n) == {p \in cluster : p.node = n /\ p.by = "controller"}

\* the invocation passed the existence check with no pod found
PassedCheck(w) ==
    \/ inv[w].pc \in {"shutdown", "deadline", "assemble", "timeout", "limit", "create"}
    \/ Done(w) /\ inv[w].end \notin {"LookupFailed", "Existing"}

\* the invocation passed the deadline resolver with a value
Resolved(w) ==
    \/ inv[w].pc \in {"assemble", "timeout", "limit", "create"}
    \/ Done(w) /\ inv[w].end \in {"AssemblyFailed", "TimeoutFailed", "DeadlineExceeded",
                                   "RateLimited", "Created", "AlreadyExists", "CreateFailed"}

\* the invocation handed its pod to the create call
Submitted(w) == inv[w].pc = "create" \/ (Done(w) /\ inv[w].creates > 0)

\* the template's activeDeadlineSeconds of the invocation, as a number
TmplSeconds(w) == IF IsSet(inv[w].tmpl) THEN Some(Val(inv[w].tmpl).v) ELSE None

\* the workflow's remaining whole seconds when the invocation read the clock
WfSeconds(w) == WholeSeconds(Val(workflowDeadline) - inv[w].at)

\* C1: after any interleaving of createWorkflowPod invocations for a node,
\* with a lagging informer index and controller restarts, the cluster holds
\* at most one pod that createWorkflowPod created for that node.
AtMostOnePodPerNode == \A n \in Nodes : Cardinality(PodsOf(n)) <= 1

\* C1 witness: an invocation began when the node's pod was already created,
\* found nothing in the index, and its create call was answered.
StaleSecondCreate ==
    \E w \in Workers :
        Done(w) /\ inv[w].prior /\ inv[w].seen = {} /\ inv[w].creates = 1
        /\ inv[w].apiErr = AlreadyExists /\ Cardinality(PodsOf(inv[w].node)) = 1

AlreadyExistsReturnsExistingPod ==
    \A w \in Workers :
        (Done(w) /\ inv[w].apiErr = AlreadyExists) =>
            (inv[w].err = NoErr /\ inv[w].ret \in PodsOf(inv[w].node))

\* C4: when Allow() returns false the invocation returns
\* ErrResourceRateLimitReached and no pod, and issued no create call.
RateLimitDenialCreatesNothing ==
    \A w \in Workers :
        (inv[w].allows > 0 /\ ~inv[w].allowed) =>
            (Done(w) /\ inv[w].err = ErrResourceRateLimitReached
             /\ inv[w].ret = NilPod /\ inv[w].creates = 0)

\* C4 witness: the limiter denied an invocation while no token was left.
RateLimitDenied ==
    \E w \in Workers : Done(w) /\ inv[w].allows = 1 /\ ~inv[w].allowed /\ tokens = 0

\* C5: a create call that fails with anything but 'already exists' ends the
\* invocation with an error and no pod and leaves activePods as it was; a
\* transient error is returned as it is, any other wrapped as internal.
CreateFailureStep(w) ==
    (inv[w].pc = "create" /\ inv'[w].pc = "done"
     /\ inv'[w].apiErr.kind \notin {"none", "AlreadyExists"}) =>
        (/\ inv'[w].ret = NilPod
         /\ inv'[w].err.kind = inv'[w].apiErr.kind
         /\ inv'[w].err.internal = ~inv'[w].apiErr.transient
         /\ activePods' = activePods)

CreateFailureLeavesNoPod == [][\A w \in Workers : CreateFailureStep(w)]_vars

\* C5 witness: a create call ended by a canceled context, after which the
\* invocation returned an error.
CreateCanceled ==
    \E w \in Workers :
        Done(w) /\ inv[w].creates = 1 /\ inv[w].apiErr.kind = "ContextCanceled"
        /\ inv[w].err # NoErr

\* C6: a failed index lookup, or one that returns more than one object, ends
\* the invocation with an error and no pod, before the rate limiter and the
\* create call; synthesis goes on only after a lookup that returned nothing.
LookupFailureStops ==
    \A w \in Workers :
        /\ (inv[w].pc \notin {"idle", "check"}
            /\ (inv[w].lookupErr \/ Cardinality(inv[w].seen) > 1)) =>
               (Done(w) /\ inv[w].err # NoErr /\ inv[w].ret = NilPod
                /\ inv[w].allows = 0 /\ inv[w].creates = 0)
        /\ PassedCheck(w) => (~inv[w].lookupErr /\ inv[w].seen = {})

\* C6 witness: the index returned two objects for the node.
LookupReturnedTwo ==
    \E w \in Workers : Done(w) /\ Cardinality(inv[w].seen) = 2 /\ ~inv[w].lookupErr

\* C7: with no pod found for the node and a shutdown strategy under which
\* the step must not execute, the invocation marks the node Skipped and
\* returns no pod and no error, without a create call.
ShutdownSkips ==
    \A w \in Workers :
        (PassedCheck(w) /\ inv[w].pc # "shutdown"
         /\ ~ShouldExecute(inv[w].strategy, inv[w].onExit)) =>
            (Done(w) /\ nodePhase[inv[w].node] = "Skipped" /\ inv[w].ret = NilPod
             /\ inv[w].err = NoErr /\ inv[w].allows = 0 /\ inv[w].creates = 0)

\* C7 witness: a step that is no exit handler was skipped under Stop.
SkippedUnderStop ==
    \E w \in Workers :
        Done(w) /\ inv[w].strategy = "Stop" /\ ~inv[w].onExit /\ inv[w].end = "Skipped"

\* the invocation read the clock in the deadline resolver
ReachedResolver(w) ==
    \/ inv[w].pc \in {"assemble", "timeout", "limit", "create"}
    \/ Done(w) /\ inv[w].end \notin {"LookupFailed", "Existing", "Skipped"}

\* the smaller of the workflow's remaining seconds and the template's
\* activeDeadlineSeconds, the former when the template sets none
MinDeadline(wfSecs, tmplSecs) ==
    IF IsSet(tmplSecs) /\ Val(tmplSecs) <= wfSecs THEN tmplSecs ELSE Some(wfSecs)

\* C8: for a step that is no exit handler, when the workflow's remaining
\* whole seconds are <= 0 as the resolver reads the clock, the invocation
\* ends with no pod returned and neither a rate limiter nor a create call.
ElapsedDeadlineAborts ==
    \A w \in Workers :
        (ReachedResolver(w) /\ ~inv[w].onExit /\ IsSet(workflowDeadline)
         /\ WfSeconds(w) <= 0) =>
            (Done(w) /\ inv[w].ret = NilPod /\ inv[w].allows = 0 /\ inv[w].creates = 0)

\* C8 witness: an invocation was aborted after the deadline had passed.
AbortedAfterDeadline ==
    \E w \in Workers :
        Done(w) /\ inv[w].end = "Aborted" /\ ~inv[w].onExit
        /\ IsSet(workflowDeadline) /\ inv[w].at > Val(workflowDeadline)

\* C9: for a step that is no exit handler and has no debug marker, with the
\* workflow deadline ahead, the resolver's activeDeadlineSeconds is the
\* minimum of the workflow's remaining seconds and the template's value.
ResolverTakesMinimum ==
    \A w \in Workers :
        (Resolved(w) /\ ~inv[w].onExit /\ ~inv[w].debug /\ IsSet(workflowDeadline)) =>
            /\ WfSeconds(w) > 0
            /\ inv[w].resolved = MinDeadline(WfSeconds(w), TmplSeconds(w))
            /\ inv[w].pc \in {"assemble", "timeout"} => inv[w].pod.ads = inv[w].resolved

\* C9 witness: two seconds remain, the template allows one, the pod got one.
TemplateDeadlineWins ==
    \E w \in Workers :
        /\ Done(w) /\ inv[w].end = "Created" /\ ~inv[w].onExit /\ ~inv[w].debug
        /\ IsSet(workflowDeadline) /\ WfSeconds(w) = 2 /\ TmplSeconds(w) = Some(1)
        /\ inv[w].resolved = Some(1)

DebugPodHasNoDeadline ==
    \A w \in Workers :
        (Submitted(w) /\ inv[w].debug) => inv[w].pod.ads = None

\* C12 as stated: every pod submitted to the create call has
\* activeDeadlineSeconds unset or strictly positive.
SubmittedDeadlinePositive ==
    \A w \in Workers :
        Submitted(w) => (~IsSet(inv[w].pod.ads) \/ Val(inv[w].pod.ads) > 0)

\* C13 as stated: when the template timeout's deadline leaves one second or
\* less, or has passed, the invocation fails with 'exceeded its deadline' and
\* issues no create call, whatever activeDeadlineSeconds the pod carries.
TemplateTimeoutStops ==
    \A w \in Workers :
        (inv[w].pc \notin {"idle", "check", "shutdown", "deadline", "assemble", "timeout"}
         /\ IsSet(inv[w].tmplLeft) /\ Val(inv[w].tmplLeft) <= TicksPerSecond) =>
            (Done(w) /\ inv[w].end = "DeadlineExceeded"
             /\ inv[w].err = Err("DeadlineExceeded") /\ inv[w].ret = NilPod
             /\ inv[w].creates = 0)

\* the invocation assembled its pod: spec is the pod spec it went on with
Assembled(w) ==
    \/ inv[w].pc \in {"timeout", "limit", "create"}
    \/ Done(w) /\ inv[w].end \in {"TimeoutFailed", "DeadlineExceeded", "RateLimited",
                                   "Created", "AlreadyExists", "CreateFailed"}

\* the places of the containers of the spec with the role
Places(spec, roles) == {i \in DOMAIN spec.containers : spec.containers[i].role \in roles}

\* the places of the containers of the spec called wait
WaitPlaces(spec) == {i \in DOMAIN spec.containers : spec.containers[i].name = WaitContainerName}

Mounts(ctr, n) == \E i \in DOMAIN ctr.mounts : ctr.mounts[i].name = n

VolumeNamesUnique ==
    \A w \in Workers :
        Assembled(w) =>
            \A i, j \in DOMAIN inv[w].spec.volumes :
                inv[w].spec.volumes[i].name = inv[w].spec.volumes[j].name => i = j

\* the elements of a sequence
Range(seq) == {seq[i] : i \in DOMAIN seq}

\* the selectors of the call that name a secret and a key
NamedSelectors(c) ==
    {sel \in Range(c.archive \o SecretsOf(c.outArts) \o SecretsOf(c.inArts)
                   \o (IF c.type = "data" THEN SecretsOf(c.dataArts) ELSE <<>>)) :
        sel.name # "" /\ sel.key # ""}

\* the places of the secret volumes in the volumes of the spec
SecretPlaces(spec) == {i \in DOMAIN spec.volumes : spec.volumes[i].src = "secret"}

\* C18 as stated: the secret volumes of the pod are one per secret name
\* referred to, and each lists every key referred to under its name once:
\* none twice, none missing.
SecretsAggregatedExactly ==
    \A w \in Workers :
        (Assembled(w) /\ inv[w].call.type \in ContainerBearing) =>
            LET vols == inv[w].spec.volumes
                refs == NamedSelectors(inv[w].call)
            IN /\ \A sel \in refs :
                     Cardinality({i \in SecretPlaces(inv[w].spec) :
                                      vols[i].name = sel.name}) = 1
               /\ \A i \in SecretPlaces(inv[w].spec) :
                     /\ \E sel \in refs : sel.name = vols[i].name
                     /\ \A j, k \in DOMAIN vols[i].items :
                            vols[i].items[j] = vols[i].items[k] => j = k
                     /\ Range(vols[i].items) = {sel.key : sel \in {r \in refs : r.name = vols[i].name}}

\* the pod spec patch of the call must be refused
BadPatch(w) == inv[w].call.patch \in {"malformed", "conflicting", "unmergeable"}

\* the invocation ended with an error of the pod spec patch
PatchErrorKinds == {"PodSpecPatchMerge", "InvalidPodSpecPatch", "StrategicMergePatch"}
PatchFailed(w) == Done(w) /\ inv[w].end = "AssemblyFailed" /\ inv[w].err.kind \in PatchErrorKinds

\* the invocation went through assembly, to its end or to an error
LeftAssembly(w) == Resolved(w) /\ inv[w].pc # "assemble"

MountedNames(c) ==
    {m.name : m \in Range(c.volumeMounts)}
    \cup UNION {{m.name : m \in Range(ctr.mounts)} : ctr \in Range(c.initContainers)}
    \cup UNION {{m.name : m \in Range(ctr.mounts)} : ctr \in Range(c.sidecars)}

\* where a name resolves first: the template, the workflow, its claims
FirstMatch(c, n) ==
    IF n \in Range(c.volumes) THEN "tmpl"
    ELSE IF n \in Range(c.wfVolumes) THEN "wf"
    ELSE IF n \in Range(c.pvcs) THEN "pvc"
    ELSE "none"

\* C20: for container, containerSet, script and data templates the pod holds,
\* for every mounted volume name, the volume of its first match among the
\* template's volumes, the workflow's and the claims'; a name that matches
\* nothing ends the invocation with a bad-request error; for other template
\* types nothing is resolved and nothing added.
VolumeReferencesResolved ==
    \A w \in Workers :
        LET c == inv[w].call
            spec == inv[w].spec
        IN /\ (Assembled(w) /\ c.type \in ContainerBearing) =>
                 \A n \in MountedNames(c) :
                     /\ FirstMatch(c, n) # "none"
                     /\ \E i \in DOMAIN spec.volumes :
                            spec.volumes[i] = Volume(n, FirstMatch(c, n))
           /\ (LeftAssembly(w) /\ c.type \in ContainerBearing
               /\ \E n \in MountedNames(c) : FirstMatch(c, n) = "none") =>
                 /\ Done(w) /\ inv[w].ret = NilPod /\ inv[w].creates = 0
                 /\ inv[w].err = Errorf(CodeBadRequest, "VolumeNotFound")
           /\ (Assembled(w) /\ c.type \notin ContainerBearing) =>
                 \A i \in DOMAIN spec.volumes : spec.volumes[i].src \notin {"wf", "pvc", "secret"}
           /\ (Done(w) /\ c.type \notin ContainerBearing) => inv[w].err.kind # "VolumeNotFound"

\* C20 witness: a name that the workflow and its claims both define was
\* resolved to the workflow's volume, and the pod was created.
WorkflowVolumeBeforeClaim ==
    \E w \in Workers :
        /\ Done(w) /\ inv[w].end = "Created" /\ inv[w].call.type = "script"
        /\ "v" \in MountedNames(inv[w].call)
        /\ "v" \notin Range(inv[w].call.volumes)
        /\ "v" \in Range(inv[w].call.wfVolumes) /\ "v" \in Range(inv[w].call.pvcs)
        /\ \E i \in DOMAIN inv[w].spec.volumes : inv[w].spec.volumes[i] = Volume("v", "wf")

\* the places of the containers of the spec called main
MainPlaces(spec) == {i \in DOMAIN spec.containers : spec.containers[i].name = MainContainerName}

\* the template comes with a container called main
CallHasMain(c) ==
    c.type # "containerSet" \/ \E n \in Range(c.mainCtrs) : n \in {"", MainContainerName}

\* the mount of an input artifact in the main container
ArtifactMount(art) == SubPathMount("input-artifacts", art.path, art.name)

\* every main container mounts the input-artifacts volume at an artifact's
\* path, with the artifact's name as sub-path, exactly when the artifact is
\* not an optional one without location and key and its path is not under a
\* mount of the template
ArtifactMountsExact(w) ==
    Assembled(w) =>
        \A i \in MainPlaces(inv[w].spec), art \in Range(inv[w].call.inArts) :
            ArtifactMount(art) \in Range(inv[w].spec.containers[i].mounts)
            <=> /\ ~(art.optional /\ ~art.located)
                /\ ~FindOverlappingVolume(inv[w].call, art.path)

\* the invocation ended with the bad-request error of an artifact without path
ArtifactPathRefused(w) ==
    /\ Done(w) /\ inv[w].end = "AssemblyFailed"
    /\ inv[w].err = Errorf(CodeBadRequest, "ArtifactPath")
    /\ inv[w].ret = NilPod /\ inv[w].allows = 0 /\ inv[w].creates = 0

\* C21 as stated: the main container mounts the input-artifacts volume at
\* the path of exactly the artifacts that are neither skipped as optional nor
\* overlapping a mount of the template, and an invocation with an artifact
\* without path fails with a bad-request error.
ArtifactMountsOrBadRequest ==
    \A w \in Workers :
        /\ ArtifactMountsExact(w)
        /\ (LeftAssembly(w) /\ \E art \in Range(inv[w].call.inArts) : art.path = <<>>)
               => ArtifactPathRefused(w)

\* C21 amended: the same, but an artifact without path fails the invocation
\* only when the pod has a container called main; with a containerSet
\* template that has none, no invocation fails for the missing path.
ArtifactMountsOrBadRequestWithMain ==
    \A w \in Workers :
        /\ ArtifactMountsExact(w)
        /\ (LeftAssembly(w) /\ CallHasMain(inv[w].call)
            /\ \E art \in Range(inv[w].call.inArts) : art.path = <<>>)
               => ArtifactPathRefused(w)
        /\ (Done(w) /\ ~CallHasMain(inv[w].call)) => inv[w].err.kind # "ArtifactPath"

\* C21 witness: of two artifacts of a created pod, the one under the mount
\* at /data has no mount in main and the other one has.
OverlappingArtifactNotMounted ==
    \E w \in Workers :
        /\ Done(w) /\ inv[w].end = "Created"
        /\ inv[w].call.volumeMounts = <<Mount("v", <<"data">>)>>
        /\ Len(inv[w].call.inArts) = 2
        /\ inv[w].call.inArts[1].path = <<"data", "sub">>
        /\ inv[w].call.inArts[1].located /\ ~inv[w].call.inArts[1].optional
        /\ inv[w].call.inArts[2].path = <<"in">>
        /\ inv[w].call.inArts[2].optional /\ inv[w].call.inArts[2].located
        /\ \E i \in MainPlaces(inv[w].spec) :
              /\ ArtifactMount(inv[w].call.inArts[1]) \notin Range(inv[w].spec.containers[i].mounts)
              /\ ArtifactMount(inv[w].call.inArts[2]) \in Range(inv[w].spec.containers[i].mounts)

\* the image, command and args the template gives a container of the pod
Declared(c, ctr) ==
    IF ctr.role = "main" THEN c.mainCmd
    ELSE IF ctr.role = "sidecar"
    THEN CHOOSE u \in Range(c.sidecars) : u.name = ctr.name
    ELSE CHOOSE u \in Range(c.initContainers) : u.name = ctr.name

\* the command a container runs: its own, or else the one the image index
\* lists for its image, or else none
ExpectedCommand(c, cmd) ==
    IF cmd.command # <<>> THEN cmd.command
    ELSE IF cmd.image \in DOMAIN c.images THEN c.images[cmd.image].command
    ELSE <<>>

\* its args: its own, or else, if the command came from the index and the
\* image is listed, the args listed with it
ExpectedArgs(c, cmd) ==
    IF cmd.command # <<>> \/ cmd.args # None \/ cmd.image \notin DOMAIN c.images THEN cmd.args
    ELSE c.images[cmd.image].args

\* the container of the pod runs the wrapper followed by its command, which
\* is not empty, with its args
Wrapped(c, ctr) ==
    /\ ExpectedCommand(c, Declared(c, ctr)) # <<>>
    /\ ctr.command = <<"/var/run/argo/argoexec", "emissary", "--">>
                     \o ExpectedCommand(c, Declared(c, ctr))
    /\ ctr.args = ExpectedArgs(c, Declared(c, ctr))

\* the invocation failed in assembly: no pod, no rate limiter check, no
\* create call
NoPodAssembled(w) ==
    /\ Done(w) /\ inv[w].end = "AssemblyFailed" /\ inv[w].err # NoErr
    /\ inv[w].ret = NilPod /\ inv[w].allows = 0 /\ inv[w].creates = 0

\* the main containers and the sidecars of the template
ListedContainers(c) == {c.mainCmd} \cup Range(c.sidecars)

\* what holds of the pod's container list under the emissary: a main
\* container or sidecar left without command fails the invocation; in an
\* assembled pod each of them is wrapped and the wait container is not
EmissaryOnContainerList(w) ==
    /\ (LeftAssembly(w) /\ \E cmd \in ListedContainers(inv[w].call) :
                               ExpectedCommand(inv[w].call, cmd) = <<>>)
           => NoPodAssembled(w)
    /\ Assembled(w) =>
           /\ \A i \in Places(inv[w].spec, {"main", "sidecar"}) :
                  Wrapped(inv[w].call, inv[w].spec.containers[i])
           /\ \A i \in WaitPlaces(inv[w].spec) :
                  inv[w].spec.containers[i].command = <<"argoexec", "wait">>

\* C22 as stated: under the emissary every container other than wait that
\* has no command of its own gets command and args from the image index; if
\* one still has no command the invocation fails and creates no pod;
\* otherwise every such container of the submitted pod runs the wrapper
\* followed by its command, and the wait container is not wrapped.
EmissaryWrapsEveryContainer ==
    \A w \in Workers :
        inv[w].call.executor = "emissary" =>
            /\ EmissaryOnContainerList(w)
            /\ (LeftAssembly(w) /\ \E u \in Range(inv[w].call.initContainers) :
                                       ExpectedCommand(inv[w].call, u) = <<>>)
                   => NoPodAssembled(w)
            /\ Assembled(w) =>
                   \A i \in DOMAIN inv[w].spec.initContainers :
                       (/\ inv[w].spec.initContainers[i].role = "userInit"
                        /\ Declared(inv[w].call, inv[w].spec.initContainers[i]).command = <<>>)
                           => Wrapped(inv[w].call, inv[w].spec.initContainers[i])

\* C22 amended: the same of the containers of the pod's container list, the
\* main containers and the sidecars; the init containers are not looked at:
\* they keep the command and args the template gives them and none of them
\* fails the invocation.
EmissaryWrapsContainerList ==
    \A w \in Workers :
        inv[w].call.executor = "emissary" =>
            /\ EmissaryOnContainerList(w)
            /\ (Done(w) /\ inv[w].err.kind = "EmissaryCommand") =>
                   \E cmd \in ListedContainers(inv[w].call) :
                       ExpectedCommand(inv[w].call, cmd) = <<>>
            /\ Assembled(w) =>
                   \A i \in DOMAIN inv[w].spec.initContainers :
                       inv[w].spec.initContainers[i].role = "userInit" =>
                           /\ inv[w].spec.initContainers[i].command
                              = Declared(inv[w].call, inv[w].spec.initContainers[i]).command
                           /\ inv[w].spec.initContainers[i].args
                              = Declared(inv[w].call, inv[w].spec.initContainers[i]).args

\* C22 witness: a pod was created under the emissary whose main container
\* runs the wrapper and the command and args of the image index, whose
\* sidecar runs the wrapper and its own command, whose wait container is not
\* wrapped and whose init container has no command.
IndexedCommandWrapped ==
    \E w \in Workers :
        /\ Done(w) /\ inv[w].end = "Created" /\ inv[w].call.executor = "emissary"
        /\ inv[w].call.mainCmd = Cmd("img", <<>>, None)
        /\ \E i \in Places(inv[w].spec, {"main"}) :
              /\ inv[w].spec.containers[i].command
                 = <<"/var/run/argo/argoexec", "emissary", "--", "entry">>
              /\ inv[w].spec.containers[i].args = Some(<<"arg">>)
        /\ \E i \in Places(inv[w].spec, {"sidecar"}) :
              inv[w].spec.containers[i].command
              = <<"/var/run/argo/argoexec", "emissary", "--", "run">>
        /\ \E i \in WaitPlaces(inv[w].spec) :
              inv[w].spec.containers[i].command = <<"argoexec", "wait">>
        /\ \E i \in DOMAIN inv[w].spec.initContainers :
              inv[w].spec.initContainers[i].role = "userInit"
              /\ inv[w].spec.initContainers[i].command = <<>>

\* the step of the invocation is the existence check, made while the lookup
\* works and the index holds exactly one object for the node, a pod
ChecksOnePod(w) ==
    /\ inv[w].pc = "check" /\ inv'[w].pc \notin {"check", "idle"}
    /\ ~inv'[w].lookupErr
    /\ \E p \in index : p.kind = "pod" /\ ByIndex(inv[w].node) = {p}

\* C23: whenever the index holds exactly one pod for the node, the
\* invocation's existence check ends it: it returns that pod and no error,
\* whatever the shutdown strategy and the workflow deadline are, goes on to
\* no later stage, and does not mark the node Skipped.
ExistingPodReturnedFirst ==
    [][\A w \in Workers :
          ChecksOnePod(w) =>
              /\ inv'[w].pc = "done" /\ inv'[w].end = "Existing"
              /\ {inv'[w].ret} = ByIndex(inv[w].node)
              /\ inv'[w].err = NoErr
              /\ inv'[w].strategy = "" /\ inv'[w].resolved = None
              /\ inv'[w].allows = 0 /\ inv'[w].creates = 0
              /\ nodePhase' = nodePhase]_vars

\* C23 witness: under the Terminate strategy and after the workflow's
\* deadline an invocation that is no exit handler returned the pod of the
\* index, and the node is not Skipped.
ExistingReturnedDuringShutdown ==
    \E w \in Workers :
        /\ Done(w) /\ inv[w].end = "Existing" /\ ~inv[w].onExit
        /\ inv[w].ret \in index /\ inv[w].err = NoErr
        /\ shutdown = "Terminate"
        /\ IsSet(workflowDeadline) /\ Val(workflowDeadline) <= now
        /\ nodePhase[inv[w].node] # "Skipped"

\* how an invocation ends before it reaches the rate limiter
EarlyEnds ==
    {"LookupFailed", "Existing", "Skipped", "ParseFailed", "Aborted", "AssemblyFailed",
     "TimeoutFailed", "DeadlineExceeded"}

\* an invocation asked the limiter at most once and called create at most
\* once, it called create only if the limiter allowed it, and it asked the
\* limiter only with a pod that went through every earlier stage
LimiterAskedLast(w) ==
    /\ inv[w].allows <= 1 /\ inv[w].creates <= 1
    /\ inv[w].creates > 0 => (inv[w].allows = 1 /\ inv[w].allowed)
    /\ inv[w].pc = "create" => (inv[w].allows = 1 /\ inv[w].allowed /\ inv[w].creates = 0)
    /\ inv[w].pc \in {"check", "shutdown", "deadline", "assemble", "timeout", "limit"}
           => (inv[w].allows = 0 /\ inv[w].creates = 0)
    /\ (Done(w) /\ inv[w].end \in EarlyEnds) => (inv[w].allows = 0 /\ inv[w].creates = 0)
    /\ inv[w].allows > 0 =>
           (/\ inv[w].seen = {} /\ ~inv[w].lookupErr
            /\ ~skipOnShutdown(inv[w].strategy, inv[w].onExit)
            /\ inv[w].pod # NilPod
            /\ Assembled(w))

\* a token leaves the limiter only in the step in which an invocation at the
\* limiter's gate is allowed; the create call is the step that follows the
\* gate, and the gate is reached from the template timeout check only
LimiterSteps(w) ==
    /\ inv'[w].allows > inv[w].allows =>
           (/\ inv[w].pc = "limit" /\ inv'[w].allows = 1
            /\ inv'[w].allowed = (tokens > 0)
            /\ inv'[w].pc = IF tokens > 0 THEN "create" ELSE "done")
    /\ inv'[w].creates > inv[w].creates => (inv[w].pc = "create" /\ inv[w].allowed)
    /\ (inv'[w].pc = "create" /\ inv[w].pc # "create") => inv[w].pc = "limit"
    /\ (inv'[w].pc = "limit" /\ inv[w].pc # "limit") => inv[w].pc = "timeout"

\* C24: within one invocation Allow() is called at most once, and only when
\* the existence check, the shutdown check, the deadline resolver, assembly
\* with substitution, patch and emissary check, and the template timeout
\* check have all passed; an invocation that ends before that takes no token
\* of the limiter; the create call is issued at most once, and only in the
\* step after Allow() returned true.
LimiterOnlyBeforeCreate ==
    /\ [](\A w \in Workers : LimiterAskedLast(w))
    /\ [][/\ \A w \in Workers : LimiterSteps(w)
          /\ tokens' < tokens =>
                 \E w \in Workers : inv[w].pc = "limit" /\ inv'[w].pc = "create"]_vars

\* C24 witness: after an invocation was skipped for the Stop strategy, an
\* exit handler's invocation asked the limiter once, took its only token and
\* created its pod with one create call.
ExitHandlerCreatedAfterOneAllow ==
    \E w \in Workers :
        /\ Done(w) /\ inv[w].end = "Created" /\ inv[w].onExit
        /\ shutdown = "Stop" /\ nodePhase[inv[w].node] = "Skipped"
        /\ inv[w].allows = 1 /\ inv[w].allowed /\ inv[w].creates = 1
        /\ tokens = Burst - 1

====
